---- MODULE Spec2Model ----
(***************************************************************************)
(* Model of src/utils/imagefx_node.js: the command-line wrapper around the *)
(* @rohitaryal/imagefx-api client.  main() is modelled as a sequence of    *)
(* steps (pc), one per stretch of the function; the external library, the  *)
(* file system and the thrown values are chosen nondeterministically.      *)
(*                                                                         *)
(* JavaScript strings are sequences of one-character strings, so that      *)
(* String.replace, parseInt, path.dirname and the base64 decoding are      *)
(* computed on characters.  Error messages are sequences of words (the     *)
(* Korean words of the source are transliterated).                         *)
(***************************************************************************)
EXTENDS Integers, Sequences, FiniteSets, TLC

VARIABLES
    pc,               \* position in main()
    args,             \* process.argv.slice(2)
    dirs,             \* directories that exist on the file system
    files,            \* path -> bytes written by fs.writeFileSync
    options,          \* the options mapping (line 19)
    fx,               \* the client object (line 57)
    generateOptions,  \* the generation request (line 60)
    promise,          \* state of the promise of the generation call
    images,           \* the value the generation call resolved to (line 84)
    savedPath,        \* line 117
    error,            \* the value caught at line 146
    stdout,           \* the kinds of the lines written by console.log
    printed,          \* the JSON records written by outputResult, in order
    exitCode,         \* -1 while running, else the process exit code
    ctorCalls,        \* arguments of each `new ImageFX(...)`
    genCalls,         \* each call of fx.generateImage / fx.generate
    saveCalls,        \* arguments of each images[0].save(...)
    mkdirCalls,       \* arguments of each fs.mkdirSync(...)
    writeCalls,       \* arguments of each fs.writeFileSync(...)
    accessed          \* fields of images[0] the program has read

vars == <<pc, args, dirs, files, options, fx, generateOptions, promise, images,
          savedPath, error, stdout, printed, exitCode, ctorCalls, genCalls,
          saveCalls, mkdirCalls, writeCalls, accessed>>

(***************************************************************************)
(* Bounds of the model.                                                    *)
(***************************************************************************)
MaxImages == 2

MaxB64Len == 3

MaxArgs == 4

MaxStrLen == 2

(***************************************************************************)
(* Strings of the program.                                                 *)
(***************************************************************************)
Cookie == <<"c", "o", "o", "k", "i", "e">>

Prompt == <<"p", "r", "o", "m", "p", "t">>

OutputPathKey == <<"o", "u", "t", "p", "u", "t", "P", "a", "t", "h">>

ModelKey == <<"m", "o", "d", "e", "l">>

AspectRatioKey == <<"a", "s", "p", "e", "c", "t", "R", "a", "t", "i", "o">>

CountKey == <<"c", "o", "u", "n", "t">>

SeedKey == <<"s", "e", "e", "d">>

DefaultOutputPath ==
    <<".", "/", "o", "u", "t", "p", "u", "t", "/",
      "g", "e", "n", "e", "r", "a", "t", "e", "d", ".", "p", "n", "g">>

DefaultCount == <<"1">>

\* "cookie 인자 누락"
MsgCookieMissing == <<"cookie", "inja", "nurak">>

\* "prompt 인자 누락"
MsgPromptMissing == <<"prompt", "inja", "nurak">>

\* "지원되는 이미지 생성 메서드를 찾을 수 없습니다"
MsgUnsupported == <<"jiwondoeneun", "imiji", "saengseong", "meseodeu", "eopseum">>

\* "이미지 생성 실패: 결과 없음"
MsgNoResults == <<"imiji", "saengseong", "silpae", "gyeolgwa", "eopseum">>

\* "이미지 데이터를 저장할 수 없습니다"
MsgCannotSave == <<"imiji", "deiteo", "jeojang", "bulga">>

Flag(name) == <<"-", "-">> \o name

\* JavaScript truthiness of a string
Truthy(s) == Len(s) > 0

\* args[i].replace(/^--/, "")
StripDashes(s) ==
    IF Len(s) >= 2 /\ s[1] = "-" /\ s[2] = "-" THEN SubSeq(s, 3, Len(s)) ELSE s

(***************************************************************************)
(* The argument loop; i is the JavaScript index.  args[i] beyond the end   *)
(* is undefined, which is falsy, as is the empty string.                   *)
(***************************************************************************)
\* Variant of the loop in which the first pair of a key wins.
RECURSIVE ParseFromFirstWins(_, _, _)
ParseFromFirstWins(a, i, opts) ==
    IF ~(i < Len(a)) THEN opts
    ELSE IF Truthy(a[i + 1]) /\ i + 1 < Len(a) /\ Truthy(a[i + 2])
         THEN ParseFromFirstWins(a, i + 2,
                  opts @@ (StripDashes(a[i + 1]) :> a[i + 2]))
         ELSE ParseFromFirstWins(a, i + 2, opts)

RECURSIVE ParseFrom(_, _, _)
ParseFrom(a, i, opts) ==
    IF ~(i < Len(a)) THEN opts
    ELSE IF Truthy(a[i + 1]) /\ i + 1 < Len(a) /\ Truthy(a[i + 2])
         THEN ParseFrom(a, i + 2, (StripDashes(a[i + 1]) :> a[i + 2]) @@ opts)
         ELSE ParseFrom(a, i + 2, opts)

ParseArgs(a) == ParseFrom(a, 0, <<>>)

Has(opts, k) == k \in DOMAIN opts

\* `options.k` used as a condition
OptTruthy(opts, k) == Has(opts, k) /\ Truthy(opts[k])

\* Variant that ignores --outputPath.
OutputPathAlwaysDefault(opts) == DefaultOutputPath

\* destructuring with a default: the default applies to an undefined field
OutputPathOf(opts) ==
    IF Has(opts, OutputPathKey) THEN opts[OutputPathKey] ELSE DefaultOutputPath

CountOf(opts) == IF Has(opts, CountKey) THEN opts[CountKey] ELSE DefaultCount

(***************************************************************************)
(* parseInt(s, 10): leading white space, an optional sign, then the        *)
(* longest run of decimal digits; NaN when there is none.                  *)
(***************************************************************************)
Digits == {"0", "1", "2", "3", "4", "5", "6", "7", "8", "9"}

DigitVal(c) ==
    CHOOSE n \in 0..9 : <<"0", "1", "2", "3", "4", "5", "6", "7", "8", "9">>[n + 1] = c

RECURSIVE TrimLeft(_)
TrimLeft(s) == IF Len(s) > 0 /\ s[1] = " " THEN TrimLeft(Tail(s)) ELSE s

RECURSIVE LeadingDigits(_)
LeadingDigits(s) ==
    IF Len(s) > 0 /\ s[1] \in Digits THEN <<s[1]>> \o LeadingDigits(Tail(s)) ELSE <<>>

RECURSIVE DecimalValue(_)
DecimalValue(d) ==
    IF Len(d) = 0 THEN 0
    ELSE 10 * DecimalValue(SubSeq(d, 1, Len(d) - 1)) + DigitVal(d[Len(d)])

NaN == [nan |-> TRUE, val |-> 0]

Num(n) == [nan |-> FALSE, val |-> n]

ParseInt(s) ==
    LET t == TrimLeft(s)
        signed == Len(t) > 0 /\ t[1] \in {"-", "+"}
        neg == Len(t) > 0 /\ t[1] = "-"
        d == LeadingDigits(IF signed THEN Tail(t) ELSE t)
    IN IF Len(d) = 0 THEN NaN
       ELSE Num(IF neg THEN 0 - DecimalValue(d) ELSE DecimalValue(d))

(***************************************************************************)
(* The generation request (lines 60-77).  NaN and 0 are falsy.             *)
(***************************************************************************)
GenerateOptions(opts) ==
    LET n == ParseInt(CountOf(opts))
        base == ("count" :> (IF n.nan \/ n.val = 0 THEN 1 ELSE n.val))
        m == IF OptTruthy(opts, ModelKey) THEN ("model" :> opts[ModelKey]) ELSE <<>>
        s == IF OptTruthy(opts, AspectRatioKey)
             THEN ("size" :> opts[AspectRatioKey]) ELSE <<>>
        sd == IF OptTruthy(opts, SeedKey)
              THEN ("seed" :> ParseInt(opts[SeedKey])) ELSE <<>>
    IN sd @@ s @@ m @@ base

(***************************************************************************)
(* path.dirname (POSIX), as Node computes it.                              *)
(***************************************************************************)
RECURSIVE DirEnd(_, _, _)
DirEnd(p, i, matchedSlash) ==
    IF i < 1 THEN -1
    ELSE IF p[i + 1] = "/"
         THEN (IF ~matchedSlash THEN i ELSE DirEnd(p, i - 1, matchedSlash))
         ELSE DirEnd(p, i - 1, FALSE)

Dirname(p) ==
    IF Len(p) = 0 THEN <<".">>
    ELSE LET hasRoot == p[1] = "/"
             end == DirEnd(p, Len(p) - 1, TRUE)
         IN IF end = -1 THEN (IF hasRoot THEN <<"/">> ELSE <<".">>)
            ELSE IF hasRoot /\ end = 1 THEN <<"/", "/">>
            ELSE SubSeq(p, 1, end)

\* fs.mkdirSync(dir, {recursive: true}) creates dir and its missing ancestors
RECURSIVE WithAncestors(_)
WithAncestors(d) ==
    IF Dirname(d) = d THEN {d} ELSE {d} \cup WithAncestors(Dirname(d))

(***************************************************************************)
(* Buffer.from(s, "base64") on unpadded base64 text.                       *)
(***************************************************************************)
B64Chars == {"A", "/"}

B64Val(c) == IF c = "A" THEN 0 ELSE 63

RECURSIVE DecodeSextets(_)
DecodeSextets(v) ==
    IF Len(v) < 2 THEN <<>>
    ELSE IF Len(v) = 2 THEN <<v[1] * 4 + v[2] \div 16>>
    ELSE IF Len(v) = 3
         THEN <<v[1] * 4 + v[2] \div 16, (v[2] % 16) * 16 + v[3] \div 4>>
    ELSE <<v[1] * 4 + v[2] \div 16, (v[2] % 16) * 16 + v[3] \div 4,
           (v[3] % 4) * 64 + v[4]>> \o DecodeSextets(SubSeq(v, 5, Len(v)))

Base64Decode(s) == DecodeSextets([i \in 1..Len(s) |-> B64Val(s[i])])

(***************************************************************************)
(* Values of the environment.                                              *)
(***************************************************************************)
StringsUpTo(alphabet, n) == UNION {[1..k -> alphabet] : k \in 0..n}

NoError == [kind |-> "none", message |-> <<>>, response |-> FALSE]

\* new Error(msg)
ErrorObj(msg) == [kind |-> "Error", message |-> msg, response |-> FALSE]

\* What the library, or the file system, may throw: an Error (with or
\* without an attached response), a value with no message field (a thrown
\* string or plain object), or null/undefined.
LibraryThrows ==
    {[kind |-> "Error", message |-> <<"library", "error">>, response |-> r] :
        r \in BOOLEAN}
    \cup {[kind |-> "nomessage", message |-> <<>>, response |-> FALSE],
          [kind |-> "nullish", message |-> <<>>, response |-> FALSE]}

FsError == ErrorObj(<<"EACCES">>)

LoadError == ErrorObj(<<"Cannot", "find", "module">>)

Absent == [def |-> FALSE, val |-> <<>>]

Payload(v) == [def |-> TRUE, val |-> v]

\* The shapes of a generated image: no save method, one that returns the
\* saved path or one that throws, and each of the data, buffer and
\* encodedImage fields present or not.
ImageShapes ==
    {[save |-> s, data |-> d, buffer |-> b, encodedImage |-> e] :
        s \in {"absent", "working", "failing"},
        d \in {Absent, Payload(<<1, 2>>)},
        b \in {Absent, Payload(<<3>>)},
        e \in {Absent, Payload(<<"A", "/">>)}}
    \cup {[save |-> "absent", data |-> Absent, buffer |-> Absent,
           encodedImage |-> Payload(e)] : e \in StringsUpTo(B64Chars, MaxB64Len)}

\* Images after the first are never inspected.
OpaqueImage ==
    [save |-> "absent", data |-> Absent, buffer |-> Absent, encodedImage |-> Absent]

ImageLists ==
    {<<>>} \cup
    {[i \in 1..n |-> IF i = 1 THEN first ELSE OpaqueImage] :
        n \in 1..MaxImages, first \in ImageShapes}

\* What the generation call may resolve to: null/undefined or a sequence.
Resolutions ==
    {[present |-> FALSE, list |-> <<>>]} \cup
    {[present |-> TRUE, list |-> l] : l \in ImageLists}

Clients ==
    {[constructed |-> TRUE, generateImage |-> g, generate |-> f] :
        g \in BOOLEAN, f \in BOOLEAN}

NoClient == [constructed |-> FALSE, generateImage |-> FALSE, generate |-> FALSE]

SaveReturns == {<<"s", ".", "p", "n", "g">>, <<"a", "/", "s", ".", "p", "n", "g">>}

Dot == <<".">>

Root == <<"/">>

OtherDirs == {<<"a">>, <<".", "/", "o", "u", "t", "p", "u", "t">>}

(***************************************************************************)
(* outputResult (lines 163-167).  JSON.stringify leaves out the fields     *)
(* whose value is undefined.                                               *)
(***************************************************************************)
JsonStringify(r) == [k \in {f \in DOMAIN r : r[f].def} |-> r[k].val]

OutputResult(r) ==
    /\ stdout' = stdout \o <<"marker", "json">>
    /\ printed' = Append(printed, JsonStringify(r))

Log(n) == stdout' = stdout \o [i \in 1..n |-> "diag"]

Throw(e) == error' = e /\ pc' = "catch"

(***************************************************************************)
(* The steps of main().                                                    *)
(***************************************************************************)
\* line 14-15: require("@rohitaryal/imagefx-api")
LoadLibrary ==
    /\ pc = "load"
    /\ \/ /\ Log(1)
          /\ pc' = "parse"
          /\ UNCHANGED error
       \/ /\ Throw(LoadError)
          /\ UNCHANGED stdout
    /\ UNCHANGED <<args, dirs, files, options, fx, generateOptions, promise, images,
                   savedPath, printed, exitCode, ctorCalls, genCalls,
                   saveCalls, mkdirCalls, writeCalls, accessed>>

\* lines 18-26
ParseArguments ==
    /\ pc = "parse"
    /\ options' = ParseArgs(args)
    /\ pc' = "validate"
    /\ UNCHANGED <<args, dirs, files, fx, generateOptions, promise, images, savedPath,
                   error, stdout, printed, exitCode, ctorCalls, genCalls,
                   saveCalls, mkdirCalls, writeCalls, accessed>>

FailureRecord(msg) ==
    [success |-> Payload(FALSE), error |-> msg, path |-> Absent, count |-> Absent]

\* Variant of the validation with the two messages exchanged.
ValidateSwappedMessages ==
    /\ pc = "validate"
    /\ IF ~OptTruthy(options, Cookie)
       THEN /\ OutputResult(FailureRecord(Payload(MsgPromptMissing)))
            /\ exitCode' = 1
            /\ pc' = "exited"
       ELSE IF ~OptTruthy(options, Prompt)
       THEN /\ OutputResult(FailureRecord(Payload(MsgCookieMissing)))
            /\ exitCode' = 1
            /\ pc' = "exited"
       ELSE /\ Log(4)
            /\ pc' = "construct"
            /\ UNCHANGED <<printed, exitCode>>
    /\ UNCHANGED <<args, dirs, files, options, fx, generateOptions, promise,
                   images, savedPath, error, ctorCalls, genCalls, saveCalls,
                   mkdirCalls, writeCalls, accessed>>

\* lines 29-54
Validate ==
    /\ pc = "validate"
    /\ IF ~OptTruthy(options, Cookie)
       THEN /\ OutputResult(FailureRecord(Payload(MsgCookieMissing)))
            /\ exitCode' = 1
            /\ pc' = "exited"
       ELSE IF ~OptTruthy(options, Prompt)
       THEN /\ OutputResult(FailureRecord(Payload(MsgPromptMissing)))
            /\ exitCode' = 1
            /\ pc' = "exited"
       ELSE /\ Log(4)
            /\ pc' = "construct"
            /\ UNCHANGED <<printed, exitCode>>
    /\ UNCHANGED <<args, dirs, files, options, fx, generateOptions, promise, images,
                   savedPath, error, ctorCalls, genCalls, saveCalls,
                   mkdirCalls, writeCalls, accessed>>

\* lines 57-79: the constructor returns a client or throws
Construct ==
    /\ pc = "construct"
    /\ ctorCalls' = Append(ctorCalls, options[Cookie])
    /\ \/ /\ \E c \in Clients : fx' = c
          /\ generateOptions' = GenerateOptions(options)
          /\ Log(1)
          /\ pc' = "invoke"
          /\ UNCHANGED error
       \/ /\ \E e \in LibraryThrows : Throw(e)
          /\ UNCHANGED <<fx, generateOptions, stdout>>
    /\ UNCHANGED <<args, dirs, files, options, promise, images, savedPath,
                   printed, exitCode, genCalls, saveCalls, mkdirCalls,
                   writeCalls, accessed>>

GenCall(method) ==
    [method |-> method, prompt |-> options[Prompt], request |-> generateOptions]

\* Variant of the probing that tries generate before generateImage.
InvokeFallbackFirst ==
    /\ pc = "invoke"
    /\ IF fx.generate
       THEN /\ Log(1)
            /\ genCalls' = Append(genCalls, GenCall("generate"))
            /\ promise' = "pending"
            /\ pc' = "await"
            /\ UNCHANGED error
       ELSE IF fx.generateImage
       THEN /\ Log(1)
            /\ genCalls' = Append(genCalls, GenCall("generateImage"))
            /\ promise' = "pending"
            /\ pc' = "await"
            /\ UNCHANGED error
       ELSE /\ Log(1)
            /\ Throw(ErrorObj(MsgUnsupported))
            /\ UNCHANGED <<genCalls, promise>>
    /\ UNCHANGED <<args, dirs, files, options, fx, generateOptions, images,
                   savedPath, printed, exitCode, ctorCalls, saveCalls,
                   mkdirCalls, writeCalls, accessed>>

\* lines 84-101: probe the client and start the call
Invoke ==
    /\ pc = "invoke"
    /\ IF fx.generateImage
       THEN /\ Log(1)
            /\ genCalls' = Append(genCalls, GenCall("generateImage"))
            /\ promise' = "pending"
            /\ pc' = "await"
            /\ UNCHANGED error
       ELSE IF fx.generate
       THEN /\ Log(1)
            /\ genCalls' = Append(genCalls, GenCall("generate"))
            /\ promise' = "pending"
            /\ pc' = "await"
            /\ UNCHANGED error
       ELSE /\ Log(1)
            /\ Throw(ErrorObj(MsgUnsupported))
            /\ UNCHANGED <<genCalls, promise>>
    /\ UNCHANGED <<args, dirs, files, options, fx, generateOptions, images,
                   savedPath, printed, exitCode, ctorCalls, saveCalls,
                   mkdirCalls, writeCalls, accessed>>

\* lines 89/94: the awaited call resolves or rejects (or threw at once)
Settle ==
    /\ pc = "await"
    /\ \/ /\ \E v \in Resolutions : images' = v
          /\ promise' = "fulfilled"
          /\ pc' = "check"
          /\ UNCHANGED error
       \/ /\ \E e \in LibraryThrows : Throw(e)
          /\ promise' = "rejected"
          /\ UNCHANGED images
    /\ UNCHANGED <<args, dirs, files, options, fx, generateOptions, savedPath,
                   stdout, printed, exitCode, ctorCalls, genCalls, saveCalls,
                   mkdirCalls, writeCalls, accessed>>

\* Variant of the result check without the test of the length.
CheckResultAbsentOnly ==
    /\ pc = "check"
    /\ IF ~images.present
       THEN /\ Throw(ErrorObj(MsgNoResults))
            /\ UNCHANGED stdout
       ELSE /\ Log(1)
            /\ pc' = "mkdir"
            /\ UNCHANGED error
    /\ UNCHANGED <<args, dirs, files, options, fx, generateOptions, promise,
                   images, savedPath, printed, exitCode, ctorCalls, genCalls,
                   saveCalls, mkdirCalls, writeCalls, accessed>>

\* lines 104-108
CheckResult ==
    /\ pc = "check"
    /\ IF ~images.present \/ Len(images.list) = 0
       THEN /\ Throw(ErrorObj(MsgNoResults))
            /\ UNCHANGED stdout
       ELSE /\ Log(1)
            /\ pc' = "mkdir"
            /\ UNCHANGED error
    /\ UNCHANGED <<args, dirs, files, options, fx, generateOptions, promise, images,
                   savedPath, printed, exitCode, ctorCalls, genCalls,
                   saveCalls, mkdirCalls, writeCalls, accessed>>

OutputDir == Dirname(OutputPathOf(options))

\* lines 111-114
MakeDir ==
    /\ pc = "mkdir"
    /\ IF Truthy(OutputDir) /\ OutputDir \notin dirs
       THEN /\ mkdirCalls' = Append(mkdirCalls, OutputDir)
            /\ \/ /\ dirs' = dirs \cup WithAncestors(OutputDir)
                  /\ pc' = "persist"
                  /\ UNCHANGED error
               \/ /\ Throw(FsError)
                  /\ UNCHANGED dirs
       ELSE /\ pc' = "persist"
            /\ UNCHANGED <<dirs, mkdirCalls, error>>
    /\ UNCHANGED <<args, files, options, fx, generateOptions, promise, images,
                   savedPath, stdout, printed, exitCode, ctorCalls, genCalls,
                   saveCalls, writeCalls, accessed>>

\* JavaScript truthiness of a field of the image: a byte payload is an
\* object (truthy when present), encodedImage is a string
FieldTruthy(img, f) ==
    img[f].def /\ (f = "encodedImage" => Truthy(img[f].val))

\* the fields read by the condition of line 125, with short-circuiting
PayloadProbe(img) ==
    {"data"}
    \cup (IF FieldTruthy(img, "data") THEN {} ELSE {"buffer"})
    \cup (IF FieldTruthy(img, "data") \/ FieldTruthy(img, "buffer")
          THEN {} ELSE {"encodedImage"})

HasPayload(img) ==
    FieldTruthy(img, "data") \/ FieldTruthy(img, "buffer")
    \/ FieldTruthy(img, "encodedImage")

\* line 126
ImageData(img) ==
    IF FieldTruthy(img, "data") THEN img.data.val
    ELSE IF FieldTruthy(img, "buffer") THEN img.buffer.val
    ELSE Base64Decode(img.encodedImage.val)

\* typeof images[0].save === "function"
HasSave(img) == img.save # "absent"

\* lines 120-122: images[0].save(outputDir) returns a path or throws
PersistSave ==
    /\ pc = "persist"
    /\ HasSave(images.list[1])
    /\ accessed' = accessed \cup {"save"}
    /\ \/ /\ images.list[1].save = "working"
          /\ \E p \in SaveReturns :
                /\ savedPath' = p
                /\ saveCalls' = Append(saveCalls, [dir |-> OutputDir, returned |-> Payload(p)])
          /\ Log(1)
          /\ pc' = "report"
          /\ UNCHANGED error
       \/ /\ images.list[1].save = "failing"
          /\ saveCalls' = Append(saveCalls, [dir |-> OutputDir, returned |-> Absent])
          /\ \E e \in LibraryThrows : Throw(e)
          /\ UNCHANGED <<savedPath, stdout>>
    /\ UNCHANGED <<args, dirs, files, options, fx, generateOptions, promise, images,
                   printed, exitCode, ctorCalls, genCalls, mkdirCalls,
                   writeCalls>>

\* Variant of the direct write that does not look at the save method first.
PersistDirectIgnoringSave ==
    /\ pc = "persist"
    /\ HasPayload(images.list[1])
    /\ accessed' = accessed \cup PayloadProbe(images.list[1])
    /\ writeCalls' = Append(writeCalls,
            [path |-> OutputPathOf(options), data |-> ImageData(images.list[1])])
    /\ \/ /\ files' = (OutputPathOf(options) :> ImageData(images.list[1])) @@ files
          /\ savedPath' = OutputPathOf(options)
          /\ Log(1)
          /\ pc' = "report"
          /\ UNCHANGED error
       \/ /\ Throw(FsError)
          /\ UNCHANGED <<files, savedPath, stdout>>
    /\ UNCHANGED <<args, dirs, options, fx, generateOptions, promise, images,
                   printed, exitCode, ctorCalls, genCalls, saveCalls, mkdirCalls>>

\* lines 125-130: fs.writeFileSync(outputPath, imageData) succeeds or throws
PersistDirect ==
    /\ pc = "persist"
    /\ ~HasSave(images.list[1])
    /\ HasPayload(images.list[1])
    /\ accessed' = accessed \cup {"save"} \cup PayloadProbe(images.list[1])
    /\ writeCalls' = Append(writeCalls,
            [path |-> OutputPathOf(options), data |-> ImageData(images.list[1])])
    /\ \/ /\ files' = (OutputPathOf(options) :> ImageData(images.list[1])) @@ files
          /\ savedPath' = OutputPathOf(options)
          /\ Log(1)
          /\ pc' = "report"
          /\ UNCHANGED error
       \/ /\ Throw(FsError)
          /\ UNCHANGED <<files, savedPath, stdout>>
    /\ UNCHANGED <<args, dirs, options, fx, generateOptions, promise, images, printed,
                   exitCode, ctorCalls, genCalls, saveCalls, mkdirCalls>>

\* lines 131-135
PersistFail ==
    /\ pc = "persist"
    /\ ~HasSave(images.list[1])
    /\ ~HasPayload(images.list[1])
    /\ accessed' = accessed \cup {"save"} \cup PayloadProbe(images.list[1])
    /\ Log(1)
    /\ Throw(ErrorObj(MsgCannotSave))
    /\ UNCHANGED <<args, dirs, files, options, fx, generateOptions, promise, images,
                   savedPath, printed, exitCode, ctorCalls, genCalls,
                   saveCalls, mkdirCalls, writeCalls>>

\* lines 138-144
Report ==
    /\ pc = "report"
    /\ OutputResult([success |-> Payload(TRUE), path |-> Payload(savedPath),
                     count |-> Payload(Len(images.list)), error |-> Absent])
    /\ exitCode' = 0
    /\ pc' = "exited"
    /\ UNCHANGED <<args, dirs, files, options, fx, generateOptions, promise, images,
                   savedPath, error, ctorCalls, genCalls, saveCalls,
                   mkdirCalls, writeCalls, accessed>>

\* The exit codes of a run that ends by an unhandled rejection of main():
\* 1 with Node 15 and later, 0 (after a warning) before.
UnhandledRejectionCodes == {0, 1}

\* Variant of the handler that starts the generation again after a rejected
\* call instead of reporting.
CatchRetries ==
    /\ pc = "catch"
    /\ IF promise = "rejected"
       THEN /\ pc' = "invoke"
            /\ UNCHANGED <<stdout, printed, exitCode>>
       ELSE /\ OutputResult(FailureRecord(
                   IF error.kind = "Error" THEN Payload(error.message) ELSE Absent))
            /\ exitCode' = 1
            /\ pc' = "exited"
    /\ UNCHANGED <<args, dirs, files, options, fx, generateOptions, promise,
                   images, savedPath, error, ctorCalls, genCalls, saveCalls,
                   mkdirCalls, writeCalls, accessed>>

\* lines 146-160.  `error.message` of null or undefined raises a TypeError
\* inside the handler: main()'s promise is rejected and nothing is printed.
\* A caught value without a message gives error: undefined.
Catch ==
    /\ pc = "catch"
    /\ IF error.kind = "nullish"
       THEN /\ pc' = "crashed"
            /\ \E c \in UnhandledRejectionCodes : exitCode' = c
            /\ UNCHANGED <<stdout, printed>>
       ELSE /\ OutputResult(FailureRecord(
                   IF error.kind = "Error" THEN Payload(error.message) ELSE Absent))
            /\ exitCode' = 1
            /\ pc' = "exited"
    /\ UNCHANGED <<args, dirs, files, options, fx, generateOptions, promise, images,
                   savedPath, error, ctorCalls, genCalls, saveCalls,
                   mkdirCalls, writeCalls, accessed>>

(***************************************************************************)
(* Specifications.                                                         *)
(***************************************************************************)
OptPair(flag, vals) == {<<>>} \cup {<<flag, v>> : v \in vals}

\* The command lines of the runs of the whole program.
MainArgs ==
    {c \o p \o o \o n :
        c \in OptPair(Flag(Cookie), {<<"k">>, <<>>}),
        p \in OptPair(Flag(Prompt), {<<"c", "a", "t">>}),
        o \in OptPair(Flag(OutputPathKey),
                      {<<"a", "/", "b">>, <<"b">>, <<"/", "b">>}),
        n \in OptPair(Flag(CountKey), {<<"2">>})}

Fresh ==
    /\ files = <<>>
    /\ options = <<>>
    /\ fx = NoClient
    /\ generateOptions = <<>>
    /\ promise = "none"
    /\ images = [present |-> FALSE, list |-> <<>>]
    /\ savedPath = <<>>
    /\ error = NoError
    /\ printed = <<>>
    /\ exitCode = -1
    /\ ctorCalls = <<>>
    /\ genCalls = <<>>
    /\ saveCalls = <<>>
    /\ mkdirCalls = <<>>
    /\ writeCalls = <<>>
    /\ accessed = {}

Init ==
    /\ pc = "load"
    /\ args \in MainArgs
    /\ dirs \in {{Dot, Root} \cup d : d \in SUBSET OtherDirs}
    /\ stdout = <<>>
    /\ Fresh

Next ==
    \/ LoadLibrary
    \/ ParseArguments
    \/ Validate
    \/ Construct
    \/ Invoke
    \/ Settle
    \/ CheckResult
    \/ MakeDir
    \/ PersistSave
    \/ PersistDirect
    \/ PersistFail
    \/ Report
    \/ Catch

Spec == Init /\ [][Next]_vars

(***************************************************************************)
(* The argument collector alone: main() at line 18 with any raw argument   *)
(* sequence of at most MaxArgs elements, the empty string among them.      *)
(***************************************************************************)
ArgTokens ==
    {<<>>, Flag(Cookie), Cookie, Flag(Flag(Cookie)), Flag(Prompt), <<"k">>}

InitArgs ==
    /\ pc = "parse"
    /\ args \in StringsUpTo(ArgTokens, MaxArgs)
    /\ dirs = {Dot, Root}
    /\ stdout = <<"diag">>
    /\ Fresh

NextArgs == ParseArguments

SpecArgs == InitArgs /\ [][NextArgs]_vars

(***************************************************************************)
(* The generation request alone: main() at line 57, after a command line   *)
(* that passed validation, with any --count and --seed strings of at most  *)
(* MaxStrLen characters.                                                   *)
(***************************************************************************)
CountChars == {"-", "0", "3", "a"}

SeedChars == {"-", "7", "a"}

NonEmpty(S) == {x \in S : Len(x) > 0}

ReqArgs ==
    {<<Flag(Cookie), <<"k">>, Flag(Prompt), <<"c", "a", "t">>>> \o m \o r \o n \o sd :
        m \in OptPair(Flag(ModelKey), {<<"m">>}),
        r \in OptPair(Flag(AspectRatioKey), {<<"1", ":", "1">>}),
        n \in OptPair(Flag(CountKey), NonEmpty(StringsUpTo(CountChars, MaxStrLen))),
        sd \in OptPair(Flag(SeedKey), NonEmpty(StringsUpTo(SeedChars, MaxStrLen)))}

InitReq ==
    /\ pc = "construct"
    /\ args \in ReqArgs
    /\ dirs = {Dot, Root}
    /\ stdout = <<"diag", "diag", "diag", "diag", "diag">>
    /\ files = <<>>
    /\ options = ParseArgs(args)
    /\ fx = NoClient
    /\ generateOptions = <<>>
    /\ promise = "none"
    /\ images = [present |-> FALSE, list |-> <<>>]
    /\ savedPath = <<>>
    /\ error = NoError
    /\ printed = <<>>
    /\ exitCode = -1
    /\ ctorCalls = <<>>
    /\ genCalls = <<>>
    /\ saveCalls = <<>>
    /\ mkdirCalls = <<>>
    /\ writeCalls = <<>>
    /\ accessed = {}

NextReq == Construct \/ Invoke

SpecReq == InitReq /\ [][NextReq]_vars

(***************************************************************************)
(* Properties.                                                             *)
(***************************************************************************)
Terminal == pc \in {"exited", "crashed"}

Range(q) == {q[i] : i \in 1..Len(q)}

EndsWithResult ==
    /\ Len(stdout) >= 2
    /\ stdout[Len(stdout) - 1] = "marker"
    /\ stdout[Len(stdout)] = "json"

\* The output path the command line asks for.
RequestedPath ==
    IF OutputPathKey \in DOMAIN options THEN options[OutputPathKey]
    ELSE DefaultOutputPath

NoPersistEffects ==
    /\ accessed = {}
    /\ saveCalls = <<>>
    /\ mkdirCalls = <<>>
    /\ writeCalls = <<>>
    /\ files = <<>>

\* C1: every error raised in main(), whatever the thrown value, ends the
\* run with a success:false record printed after the marker and exit code 1.
ErrorsAlwaysReported ==
    (Terminal /\ error.kind # "none") =>
        /\ exitCode = 1
        /\ EndsWithResult
        /\ Len(printed) = 1
        /\ printed[1].success = FALSE

\* C2: every run ends with the marker line and one JSON record as the last
\* two lines of stdout, the marker is printed exactly once, and the exit
\* code is 0 exactly when the record has success:true, else 1.
EveryRunEndsWithOneResult ==
    Terminal =>
        /\ EndsWithResult
        /\ Cardinality({i \in DOMAIN stdout : stdout[i] = "marker"}) = 1
        /\ Len(printed) = 1
        /\ exitCode = (IF printed[1].success THEN 0 ELSE 1)

\* The validation step has run (the library loaded and the arguments were
\* parsed).
Validated == pc \notin {"load", "parse", "validate"} /\ error # LoadError

\* C3: when the options lack cookie, or lack prompt, the run prints a
\* failure record whose error names the missing field (cookie first) and
\* exits 1 at once: no client is constructed, no generation method is
\* called, no directory or file is created.
MissingRequiredExitsAtOnce ==
    (Validated /\ (~Has(options, Cookie) \/ ~Has(options, Prompt))) =>
        /\ pc = "exited"
        /\ exitCode = 1
        /\ EndsWithResult
        /\ Len(printed) = 1
        /\ printed[1].success = FALSE
        /\ "error" \in DOMAIN printed[1]
        /\ (IF ~Has(options, Cookie) THEN "cookie" ELSE "prompt")
               \in Range(printed[1].error)
        /\ ctorCalls = <<>>
        /\ genCalls = <<>>
        /\ ~fx.constructed
        /\ NoPersistEffects

\* C3 happens: a run without cookie, with prompt, has exited with its record.
MissingCookieReported ==
    /\ pc = "exited"
    /\ error = NoError
    /\ ~Has(options, Cookie)
    /\ Has(options, Prompt)
    /\ Len(printed) = 1

\* C4: at most one generation method is called, at most once: generateImage
\* when the client has it (never generate), generate when the client has
\* only that one, and the call gets the prompt and the derived request.
OneGenerationCall ==
    /\ Len(genCalls) <= 1
    /\ (~fx.constructed \/ pc = "invoke") => genCalls = <<>>
    /\ (fx.constructed /\ pc # "invoke") =>
          IF fx.generateImage
          THEN Len(genCalls) = 1 /\ genCalls[1].method = "generateImage"
          ELSE IF fx.generate
          THEN Len(genCalls) = 1 /\ genCalls[1].method = "generate"
          ELSE genCalls = <<>>
    /\ \A i \in DOMAIN genCalls :
          /\ genCalls[i].prompt = options[Prompt]
          /\ genCalls[i].request = GenerateOptions(options)

\* C4 happens: a client with generate only was called, with a --count given.
FallbackCalled ==
    /\ pc = "await"
    /\ ~fx.generateImage
    /\ fx.generate
    /\ Len(genCalls) = 1
    /\ genCalls[1].method = "generate"
    /\ Has(options, CountKey)

\* C5: the persist step is entered only after a generation call resolved to
\* a non-empty sequence; a client with neither method fails with the
\* unsupported-client error, a call resolving to an absent value or an
\* empty sequence fails with the no-results error, and in both cases no
\* field of an image is read, no directory is created and no file written.
PersistOnlyAfterResults ==
    /\ (pc \in {"mkdir", "persist", "report"} \/ ~NoPersistEffects) =>
          /\ Len(genCalls) = 1
          /\ promise = "fulfilled"
          /\ images.present
          /\ Len(images.list) >= 1
    /\ (fx.constructed /\ pc # "invoke" /\ ~fx.generateImage /\ ~fx.generate) =>
          /\ error = ErrorObj(MsgUnsupported)
          /\ pc \in {"catch", "exited"}
          /\ NoPersistEffects
    /\ (promise = "fulfilled" /\ pc # "check"
            /\ (~images.present \/ Len(images.list) = 0)) =>
          /\ error = ErrorObj(MsgNoResults)
          /\ pc \in {"catch", "exited"}
          /\ NoPersistEffects

\* C5 happens: the call resolved to an empty sequence and the run has failed.
EmptyResultFailed ==
    /\ pc = "exited"
    /\ promise = "fulfilled"
    /\ images.present
    /\ Len(images.list) = 0
    /\ Len(printed) = 1
    /\ ~printed[1].success

\* The generation call returned n >= 1 images and the first one has a
\* working save method.
SaveCapable ==
    /\ promise = "fulfilled"
    /\ images.present
    /\ Len(images.list) >= 1
    /\ images.list[1].save = "working"

SavedAndReported ==
    /\ Len(saveCalls) = 1
    /\ saveCalls[1].dir = Dirname(RequestedPath)
    /\ saveCalls[1].returned.def
    /\ writeCalls = <<>>
    /\ files = <<>>
    /\ printed = <<[success |-> TRUE, path |-> saveCalls[1].returned.val,
                    count |-> Len(images.list)]>>

\* C6 as stated: when the call returns n >= 1 images and the first has a
\* working save method, save is called exactly once with the parent
\* directory of the output path, the program writes no file itself, and the
\* record is success:true with count n and the path save returned.
SaveAlwaysReported == (Terminal /\ SaveCapable) => SavedAndReported

\* C6 as amended: the same, provided the parent directory of the output
\* path exists or was created without error; in every case the program
\* writes no file itself and calls save at most once.
SaveReportedWhenDirReady ==
    /\ SaveCapable => (writeCalls = <<>> /\ files = <<>> /\ Len(saveCalls) <= 1)
    /\ (Terminal /\ SaveCapable /\ Dirname(RequestedPath) \in dirs) =>
          SavedAndReported

\* C6 happens: two images, the first with save and data, the directory
\* created by the run, and the success record printed.
SaveWithPayloadReported ==
    /\ Terminal
    /\ SaveCapable
    /\ images.list[1].data.def
    /\ Len(images.list) = 2
    /\ Len(mkdirCalls) = 1
    /\ Len(printed) = 1
    /\ printed[1].success

\* The generation call returned a non-empty sequence whose first image has
\* no save method and only the encodedImage field.
Base64Only ==
    /\ promise = "fulfilled"
    /\ images.present
    /\ Len(images.list) >= 1
    /\ images.list[1].save = "absent"
    /\ ~images.list[1].data.def
    /\ ~images.list[1].buffer.def
    /\ images.list[1].encodedImage.def

WrittenAndReported ==
    /\ Len(writeCalls) = 1
    /\ DOMAIN files = {RequestedPath}
    /\ files[RequestedPath] = Base64Decode(images.list[1].encodedImage.val)
    /\ saveCalls = <<>>
    /\ printed = <<[success |-> TRUE, path |-> RequestedPath,
                    count |-> Len(images.list)]>>

\* C7 as stated: when the first image has no save method and only a base64
\* encodedImage, the program writes exactly one file, at the requested
\* output path (or the default), holding the decoded bytes, and reports
\* success:true with that path.
Base64AlwaysWritten == (Terminal /\ Base64Only) => WrittenAndReported

\* C7 as amended: the same, provided encodedImage is not the empty string
\* and neither the directory creation nor the file write fails.
Base64WrittenWhenPossible ==
    /\ Base64Only => (Len(writeCalls) <= 1 /\ saveCalls = <<>>)
    /\ (Terminal /\ Base64Only /\ Truthy(images.list[1].encodedImage.val)
            /\ error # FsError) => WrittenAndReported

\* C7 happens: a two-byte encodedImage written to the default path.
Base64WrittenToDefault ==
    /\ Terminal
    /\ Base64Only
    /\ ~Has(options, OutputPathKey)
    /\ DefaultOutputPath \in DOMAIN files
    /\ Len(files[DefaultOutputPath]) = 2
    /\ Len(printed) = 1
    /\ printed[1].success

\* C8: the request passed to the client has an integer count >= 1 (1 when
\* --count is absent or does not parse), has model, size and seed exactly
\* when --model, --aspectRatio and --seed were given, size is the
\* aspectRatio string and seed, when present, is an integer.
RequestConformsToDataModel ==
    \A i \in DOMAIN genCalls :
        LET r == genCalls[i].request IN
        /\ r["count"] >= 1
        /\ (~Has(options, CountKey) \/ ParseInt(options[CountKey]).nan) =>
              r["count"] = 1
        /\ ("model" \in DOMAIN r) <=> Has(options, ModelKey)
        /\ ("model" \in DOMAIN r) => r["model"] = options[ModelKey]
        /\ ("size" \in DOMAIN r) <=> Has(options, AspectRatioKey)
        /\ ("size" \in DOMAIN r) => r["size"] = options[AspectRatioKey]
        /\ ("seed" \in DOMAIN r) <=> Has(options, SeedKey)
        /\ ("seed" \in DOMAIN r) => ~r["seed"].nan

\* The mapping of the pairs (a[2k-1], a[2k]) selected by Counts: the key is
\* the first element with one leading "--" removed, the value the second
\* element, the last pair of a key winning.
PairsMapping(a, Counts(_)) ==
    LET pairs == {k \in 1..(Len(a) \div 2) : Counts(k)}
        keyOf(k) == StripDashes(a[2 * k - 1])
        lastOf(key) == CHOOSE k \in pairs :
                          /\ keyOf(k) = key
                          /\ \A j \in pairs : keyOf(j) = key => j <= k
    IN [key \in {keyOf(k) : k \in pairs} |-> a[2 * lastOf(key)]]

Rank(p) ==
    CASE p = "load" -> 1
      [] p = "parse" -> 2
      [] p = "validate" -> 3
      [] p = "construct" -> 4
      [] p = "invoke" -> 5
      [] p = "await" -> 6
      [] p = "check" -> 7
      [] p = "mkdir" -> 8
      [] p = "persist" -> 9
      [] p = "report" -> 10
      [] p = "catch" -> 11
      [] p = "exited" -> 12
      [] p = "crashed" -> 12

Effects ==
    <<dirs, files, fx, ctorCalls, genCalls, saveCalls, mkdirCalls, writeCalls,
      accessed, promise, images>>

StepInOrder ==
    /\ Rank(pc') > Rank(pc)
    /\ Rank(pc') <= 10 => Rank(pc') = Rank(pc) + 1
    /\ error' # error => (error = NoError /\ pc' = "catch")
    /\ pc' = "catch" => error' # NoError
    /\ (pc' = "exited" /\ pc \notin {"report", "catch"}) =>
          (pc = "validate" /\ ctorCalls' = <<>> /\ exitCode' = 1)
    /\ pc \in {"catch", "exited", "crashed"} =>
          (pc' \in {"exited", "crashed"} /\ Effects' = Effects)
    /\ (pc' = "catch" /\ Rank(pc) <= 7) =>
          (mkdirCalls' = <<>> /\ writeCalls' = <<>> /\ saveCalls' = <<>>
           /\ dirs' = dirs /\ files' = <<>>)

\* C10: the run goes once through parse, validate, invoke, persist, report
\* in this order, never back; a failure at a step leads straight to the
\* failure report and exit, no later step runs: no client is constructed
\* after a validation failure, no file system action follows a generation
\* failure.
LinearProgress == [][StepInOrder]_vars

\* C10 happens: the generation call was rejected and the run has exited.
GenerationFailedNoFiles ==
    /\ pc = "exited"
    /\ promise = "rejected"
    /\ exitCode = 1
    /\ mkdirCalls = <<>>
    /\ files = <<>>

====
